---- MODULE Spec2Model ----
(***************************************************************************)
(* NDEF URI codec of the NFC attendance tools.                             *)
(*                                                                         *)
(*   programar_tarjetas_matricula.py  NdefManager: escribir_ndef writes a  *)
(*       URI record page by page, leer_ndef scans and parses it back.      *)
(*   pasar_lista_auditorio.py         NdefManager: the read-only decoder   *)
(*       of the attendance application.                                    *)
(*                                                                         *)
(*   pasar_lista_auditorio.py         MainWindow, CardMonitorThread and    *)
(*       CardReaderObserver: sessions, the signals of the card monitor     *)
(*       and the attendance saved in asistencia.xlsx.                      *)
(*                                                                         *)
(* The tag is a page array behind conexion.transmit: every APDU is one     *)
(* step of the model and is appended to apdus, the trace of the commands   *)
(* of the operation in progress.  Strings are sequences of code points,    *)
(* tag memory and APDU data are sequences of bytes.                        *)
(***************************************************************************)
EXTENDS Integers, Sequences, FiniteSets, TLC

VARIABLES
    mem,            \* tag memory: page index -> 4 bytes
    pc,             \* "idle"; "write", "fin_escribir"; "scan", "parse", "fin_leer", "emitido"
    prog,           \* program whose NdefManager runs: "tool" or "app"
    url,            \* argument of the escribir_ndef call in progress
    paginas,        \* escribir_ndef: the 4-byte blocks of the padded TLV
    i,              \* escribir_ndef: index of the next block to write
    datos_leidos,   \* leer_ndef: bytes accumulated by the scan
    current_page,   \* leer_ndef: next page index to read
    apdus,          \* commands transmitted by the operation in progress
    leida,          \* value returned by leer_ndef
    raised,         \* exception that left the operation, "" if none
    faults,         \* transmissions that went wrong so far
    nenc,           \* escribir_ndef calls made since the tag was put on the reader
    senales,        \* signals emitted by CardReaderObserver.update for this card
    lectura_en_proceso,     \* MainWindow: a session is running
    thread_lectura,         \* MainWindow: "None" or "thread"
    observador,             \* the CardReaderObserver is attached to the CardMonitor
    emisor,                 \* signal_emitter of the observer: "None" or "conectado"
    registro_matriculas,    \* MainWindow: roster loaded from the workbook
    matriculas_registradas, \* MainWindow: matriculas read in the session
    invalid_matriculas,     \* MainWindow: matriculas read that are not in the roster
    label_matricula,        \* MainWindow: what the last call on the label made it show
    libro,                  \* asistencia.xlsx on disk: rows of cells, <<>> if missing
    cola,                   \* signals queued for the slots of the window
    recibidas,              \* matriculas procesar_matricula received since the session began
    en_lector,              \* a card is on the reader
    ntarjetas               \* cards presented so far

codecVars == <<mem, pc, prog, url, paginas, i, datos_leidos, current_page,
               apdus, leida, raised, faults, nenc, senales>>

\* the window but for its queue of signals
ventanaVars == <<lectura_en_proceso, thread_lectura, observador, emisor,
                 registro_matriculas, matriculas_registradas, invalid_matriculas,
                 label_matricula, libro, recibidas,
                 en_lector, ntarjetas>>

winVars == <<ventanaVars, cola>>

vars == <<codecVars, winVars>>

---------------------------------------------------------------------------
(* Bounds of the model.                                                    *)

MaxLen == 10        \* longest URI body (characters after the scheme)
MaxFaults == 1      \* transmissions that may go wrong on one tag
MaxEncodes == 1     \* escribir_ndef calls on one tag while it stays on the reader
CapSpan == 1        \* URI lengths below the 130 of the tag that are tried
MaxTarjetas == 2    \* cards presented to the attendance application

---------------------------------------------------------------------------
(* Python sequence helpers (0-based indices, half-open slices).            *)

Min(a, b) == IF a < b THEN a ELSE b

\* s[a:b]
Slice(s, a, b) == SubSeq(s, a + 1, Min(b, Len(s)))

\* x in s
Contains(s, x) == \E k \in 1..Len(s) : s[k] = x

\* s.index(x), defined when x in s
IndexOf(s, x) == (CHOOSE k \in 1..Len(s) : s[k] = x /\ \A j \in 1..(k - 1) : s[j] # x) - 1

\* s.startswith(p)
StartsWith(s, p) == Len(s) >= Len(p) /\ SubSeq(s, 1, Len(p)) = p

\* [x] * n
Repeat(x, n) == [k \in 1..n |-> x]

\* str.encode('utf-8') of one code point
Utf8Char(cp) ==
    IF cp < 128 THEN <<cp>>
    ELSE IF cp < 2048 THEN <<192 + (cp \div 64), 128 + (cp % 64)>>
    ELSE <<224 + (cp \div 4096), 128 + ((cp \div 64) % 64), 128 + (cp % 64)>>

RECURSIVE Utf8(_)
\* list(s.encode('utf-8'))
Utf8(s) ==
    IF s = <<>> THEN <<>>
    ELSE IF Len(s) = 1 THEN Utf8Char(s[1])
    ELSE Utf8(SubSeq(s, 1, Len(s) \div 2)) \o Utf8(SubSeq(s, Len(s) \div 2 + 1, Len(s)))

\* "".join(chr(b) for b in bytes): each byte becomes the code point of its value
ChrJoin(bs) == [k \in 1..Len(bs) |-> bs[k]]

---------------------------------------------------------------------------
(* Program constants.                                                      *)

HTTPS == <<104, 116, 116, 112, 115, 58, 47, 47>>            \* "https://"
HTTP == <<104, 116, 116, 112, 58, 47, 47>>                  \* "http://"
HTTP_WWW == <<104, 116, 116, 112, 58, 47, 47, 119, 119, 119, 46>>
HTTPS_WWW == <<104, 116, 116, 112, 115, 58, 47, 47, 119, 119, 119, 46>>

TagPages == 45          \* NTAG213: 180 bytes in pages of 4
UrlMax == 130           \* "hasta 130 caracteres en la URL a escribir"
pagina_inicio == 4      \* first data page

\* a ceiling that leaves room for 32 data pages only
max_page_menor == pagina_inicio + 32

max_page == 40          \* read ceiling of leer_ndef (exclusive)

None == [tag |-> "None", s |-> <<>>]
Str(s) == [tag |-> "str", s |-> s]
Unset == [tag |-> "unset", s |-> <<>>]

---------------------------------------------------------------------------
(* escribir_ndef: construction of the padded TLV.                          *)

prefijo == 4

url_sin_prefijo(u) ==
    IF StartsWith(u, HTTPS) THEN Slice(u, Len(HTTPS), Len(u))
    ELSE IF StartsWith(u, HTTP) THEN Slice(u, Len(HTTP), Len(u))
    ELSE u

\* an encoder that remembers which scheme it stripped
payload_por_esquema(u) ==
    <<IF StartsWith(u, HTTP) THEN 3 ELSE prefijo>> \o Utf8(url_sin_prefijo(u))

payload_de(u) == <<prefijo>> \o Utf8(url_sin_prefijo(u))

\* a record whose length byte leaves the abbreviation code out
registro_sin_codigo(u) ==
    <<209, 1, Len(Utf8(url_sin_prefijo(u))), 85>> \o payload_de(u)

registro_ndef(u) == <<209, 1, Len(payload_de(u)), 85>> \o payload_de(u)

tlv_sin_relleno(u) == <<3, Len(registro_ndef(u))>> \o registro_ndef(u) \o <<254>>

\* no padding at all
SinRelleno(t) == t

Rellenar(t) ==
    IF Len(t) % 4 # 0 THEN t \o Repeat(0, 4 - (Len(t) % 4)) ELSE t

tlv(u) == Rellenar(tlv_sin_relleno(u))

\* a split that stops one block short
DividirSinUltimo(t) == [k \in 1..((Len(t) + 3) \div 4 - 1) |-> Slice(t, 4 * (k - 1), 4 * k)]

\* [t[k:k+4] for k in range(0, len(t), 4)]
Dividir(t) == [k \in 1..((Len(t) + 3) \div 4) |-> Slice(t, 4 * (k - 1), 4 * k)]

---------------------------------------------------------------------------
(* The tag behind conexion.transmit.                                       *)

\* the 16 bytes of the four pages from page p on (pages past the end read 0)
PageBytes(m, p) ==
    IF p \in DOMAIN m THEN m[p] ELSE <<0, 0, 0, 0>>

BlockAt(m, p) ==
    PageBytes(m, p) \o PageBytes(m, p + 1) \o PageBytes(m, p + 2) \o PageBytes(m, p + 3)

\* _escribir_pagina: FF 00 00 00 06 D4 42 A2 [pagina] [4 bytes]
apdu_escribir(pagina, datos) == <<255, 0, 0, 0, 6, 212, 66, 162, pagina>> \o datos

\* a read that sends the write opcode with an empty page
apdu_borrar(pagina) == apdu_escribir(pagina, <<0, 0, 0, 0>>)

\* _leer_bloque: FF 00 00 00 04 D4 42 30 [pagina_inicio]
apdu_leer(pagina) == <<255, 0, 0, 0, 4, 212, 66, 48, pagina>>

\* the tag after a command: only an accepted A2 command changes a page
TagAfter(m, apdu, ok) ==
    IF ok /\ Len(apdu) = 13 /\ apdu[8] = 162 /\ apdu[9] \in DOMAIN m
    THEN [m EXCEPT ![apdu[9]] = SubSeq(apdu, 10, 13)]
    ELSE m

\* response of the reader to a read command, by what happened to it:
\*   "raw"    the 16 data bytes,
\*   "framed" the 16 data bytes after the reader's D5 43 00 header,
\*   "short"  only an error header D5 43 01, still with status 90 00,
\*   "fail"   a status other than 90 00
ReadOutcomes == {"raw", "framed", "short", "fail"}

Respuesta(m, p, o) ==
    IF o = "raw" THEN BlockAt(m, p)
    ELSE IF o = "framed" THEN <<213, 67, 0>> \o BlockAt(m, p)
    ELSE IF o = "short" THEN <<213, 67, 1>>
    ELSE <<>>

StatusOk(o) == o # "fail"

\* _leer_bloque: the block returned for a response with status 90 00
UltimosBytes(r) == IF Len(r) > 16 THEN Slice(r, Len(r) - 16, Len(r)) ELSE r

---------------------------------------------------------------------------
(* leer_ndef: parsing of the accumulated bytes.                            *)

\* a table with the two "www." entries exchanged
mapa_cambiado(c) ==
    IF c = 0 THEN <<>>
    ELSE IF c = 1 THEN HTTPS_WWW
    ELSE IF c = 2 THEN HTTP_WWW
    ELSE IF c = 3 THEN HTTP
    ELSE IF c = 4 THEN HTTPS
    ELSE <<>>

\* mapa_prefijos.get(codigo_prefijo, "")
mapa_prefijos(c) ==
    IF c = 0 THEN <<>>
    ELSE IF c = 1 THEN HTTP_WWW
    ELSE IF c = 2 THEN HTTPS_WWW
    ELSE IF c = 3 THEN HTTP
    ELSE IF c = 4 THEN HTTPS
    ELSE <<>>

\* datos_leidos[indice + 2 : indice + 2 + ndef_len], when 0x03 is in d and
\* a length byte follows it
mensaje_ndef(d) ==
    LET indice == IndexOf(d, 3)
        ndef_len == d[indice + 2]
    IN  Slice(d, indice + 2, indice + 2 + ndef_len)

\* mensaje_ndef[4 : 4 + payload_len], when the message has 5 bytes or more
payload_leido(m) == Slice(m, 4, 4 + m[3])

\* a parser that takes whatever follows the header as the payload
payload_sin_comprobar(m) == TRUE

\* len(mensaje_ndef) >= 4 + payload_len
payload_completo(m) == Len(m) >= 4 + m[3]

\* a decoder that keeps the abbreviation code as a character
con_codigo(payload) == ChrJoin(payload)

\* "".join(chr(b) for b in payload[1:])
matricula_leida(payload) == ChrJoin(Tail(payload))

Returns(v) == [ret |-> v, exc |-> ""]
Raises(e) == [ret |-> Unset, exc |-> e]

\* the ValueError of index() left uncaught
sin_capturar(p) == Raises("ValueError")

\* datos_leidos.index(0x03) raised ValueError: what program p returns
sin_tlv(p) == IF p = "tool" THEN Returns(None) ELSE Returns(Str(<<>>))

\* programar_tarjetas_matricula.py, leer_ndef after the read loop
parse_tool(d) ==
    IF ~Contains(d, 3) THEN sin_tlv("tool")
    ELSE IF IndexOf(d, 3) + 1 >= Len(d) THEN Returns(None)
    ELSE LET m == mensaje_ndef(d) IN
         IF Len(m) >= 5
         THEN IF payload_completo(m)
              THEN LET payload == payload_leido(m) IN
                   IF payload = <<>> THEN Raises("IndexError")
                   ELSE Returns(Str(mapa_prefijos(payload[1]) \o ChrJoin(Tail(payload))))
              ELSE Returns(None)
         ELSE Returns(None)

\* pasar_lista_auditorio.py, leer_ndef after the read loop
parse_app(d) ==
    IF ~Contains(d, 3) THEN sin_tlv("app")
    ELSE IF IndexOf(d, 3) + 1 >= Len(d) THEN Returns(Str(<<>>))
    ELSE LET m == mensaje_ndef(d) IN
         IF Len(m) < 5 THEN Returns(Str(<<>>))
         ELSE IF ~payload_completo(m) THEN Returns(Str(<<>>))
         ELSE LET payload == payload_leido(m) IN
              IF payload = <<>> THEN Returns(Str(<<>>))
              ELSE Returns(Str(matricula_leida(payload)))

parse(p, d) == IF p = "tool" THEN parse_tool(d) ELSE parse_app(d)

\* the value by which each program's leer_ndef reports failure
NotFound(p) == IF p = "tool" THEN None ELSE Str(<<>>)

---------------------------------------------------------------------------
(* Inputs: the URIs handed to escribir_ndef and the tags presented.        *)

Letters == <<97, 98, 99>>       \* "a", "b", "c"

\* n characters cycling through Letters from the k-th on
Body(n, k) == [j \in 1..n |-> Letters[((j + k) % Len(Letters)) + 1]]

\* lengths 0..3 cover every padding; the three longest put the terminator at
\* the end of the first block read, at the start of the second, and inside it
Lengths == 0..3 \cup {n \in (MaxLen - 2)..MaxLen : n >= 0}

Bodies == {Body(n, 0) : n \in Lengths} \cup {<<97, 233, 98>>}     \* "a\u00e9b": one character outside ASCII

Schemes == {HTTPS, HTTP, <<>>}

Urls == {sc \o b : sc \in Schemes, b \in Bodies}

IsAscii(s) == \A k \in 1..Len(s) : s[k] < 128

\* URIs at the capacity the tool is meant for, scheme included
CapUrls ==
    {sc \o Body(n - Len(sc), 0) : sc \in Schemes, n \in (UrlMax - CapSpan)..UrlMax}
        \cup {u \in Urls : IsAscii(u)}

\* the URIs of a list written one after another to one tag: of one page of
\* record and of many, with each scheme and none, one outside ASCII, and one
\* at the capacity of the tag
SeqUrls ==
    { <<97>>,
      HTTP \o Body(3, 1),
      HTTPS \o Body(MaxLen, 2),
      Body(MaxLen + 2, 3),
      HTTPS \o <<97, 233, 98>>,
      Body(UrlMax, 4) }

UserBytes == (max_page - pagina_inicio) * 4

\* user memory filled with one byte, with a patch laid at a byte offset
Image(fill, patch, off) ==
    [k \in 1..UserBytes |->
        IF k - 1 >= off /\ k - 1 < off + Len(patch) THEN patch[k - off] ELSE fill]

MemOf(img) ==
    [p \in 0..(TagPages - 1) |->
        IF p >= pagina_inicio /\ p < max_page
        THEN SubSeq(img, 4 * (p - pagina_inicio) + 1, 4 * (p - pagina_inicio) + 4)
        ELSE <<0, 0, 0, 0>>]

Patches ==
    { <<>>,                                          \* nothing but the fill
      <<3>>,                                         \* a marker alone
      <<254>>,                                       \* a terminator alone
      <<3, 5, 209, 1, 0, 85, 4, 254>>,               \* record with empty payload
      <<3, 5, 209, 1, 0, 85, 4>>,                    \* the same, no terminator
      <<3, 7, 209, 1, 3, 85, 2, 97, 98, 254>>,       \* code 0x02
      <<3, 6, 209, 1, 2, 85, 9, 97, 254>>,           \* unknown code
      <<3, 6, 209, 1, 2, 85, 0, 97, 254>>,           \* code 0x00
      <<3, 6, 209, 1, 2, 85, 1, 97, 254>>,           \* code 0x01
      <<3, 6, 209, 1, 2, 85, 3, 97, 254>>,           \* code 0x03
      <<3, 6, 209, 1, 2, 85, 4, 97, 254>>,           \* code 0x04
      <<3, 8, 209, 1, 2, 85, 4, 97, 98, 99, 254>>,   \* message longer than its payload
      <<3, 3, 209, 1, 1, 254>>,                      \* message shorter than 5
      <<3, 6, 209, 1, 9, 85, 4, 97, 254>>,           \* payload longer than message
      <<3, 30, 209, 1, 26, 85, 4, 97, 98>> }         \* no terminator

Offsets == {0, 14, 16, 40, UserBytes - 1}

Fills == {0, 65}

Images == {Image(f, pt, o) : f \in Fills, pt \in Patches, o \in Offsets}

---------------------------------------------------------------------------
(* The workbook asistencia.xlsx and the texts of the attendance window.    *)

Max(a, b) == IF a > b THEN a ELSE b

\* cell values of openpyxl besides None and str
Entero(n) == [tag |-> "int", n |-> n]
Datetime(d, m, y) == [tag |-> "datetime", d |-> d, m |-> m, y |-> y]

\* a QDate
QDate(d, m, y) == [d |-> d, m |-> m, y |-> y]

RECURSIVE Decimal(_)
\* the decimal digits of a natural number
Decimal(n) == IF n < 10 THEN <<48 + n>> ELSE Decimal(n \div 10) \o <<48 + (n % 10)>>

\* a number zero-filled to w digits
Pad(n, w) == Repeat(48, w - Len(Decimal(n))) \o Decimal(n)

\* cell_value.strftime("%d/%m/%Y")
strftime(v) == Pad(v.d, 2) \o <<47>> \o Pad(v.m, 2) \o <<47>> \o Pad(v.y, 4)

\* self.date_edit.date().toString("dd/MM/yyyy")
fecha_seleccionada(f) == Pad(f.d, 2) \o <<47>> \o Pad(f.m, 2) \o <<47>> \o Pad(f.y, 4)

\* str(value) of a cell value that is not None
PyStr(v) ==
    CASE v.tag = "str" -> v.s
      [] v.tag = "int" -> Decimal(v.n)
      [] v.tag = "datetime" ->
            Pad(v.y, 4) \o <<45>> \o Pad(v.m, 2) \o <<45>> \o Pad(v.d, 2)
                \o <<32, 48, 48, 58, 48, 48, 58, 48, 48>>

Blancos == {9, 10, 13, 32}

RECURSIVE LStrip(_)
LStrip(s) == IF s # <<>> /\ s[1] \in Blancos THEN LStrip(Tail(s)) ELSE s

RECURSIVE RStrip(_)
RStrip(s) == IF s # <<>> /\ s[Len(s)] \in Blancos THEN RStrip(SubSeq(s, 1, Len(s) - 1)) ELSE s

\* str.strip()
strip(s) == RStrip(LStrip(s))

SI == <<83, 73>>
NO == <<78, 79>>
MATRICULA == <<77, 65, 84, 82, 73, 67, 85, 76, 65>>

\* hoja.max_row, hoja.max_column
max_row(hoja) == Len(hoja)
max_column(hoja) == Len(hoja[1])

\* hoja.cell(row=r, column=c).value
cell(hoja, r, c) == IF r <= Len(hoja) /\ c <= Len(hoja[r]) THEN hoja[r][c] ELSE None

\* hoja.cell(row=r, column=c, value=v)
Poner(hoja, r, c, v) ==
    [rr \in 1..Len(hoja) |->
        [cc \in 1..Max(c, max_column(hoja)) |->
            IF rr = r /\ cc = c THEN v ELSE cell(hoja, rr, cc)]]

\* MainWindow._get_last_date_column
get_last_date_column(sheet) ==
    LET llenas == {col \in 2..max_column(sheet) :
                      /\ cell(sheet, 1, col) # None
                      /\ strip(PyStr(cell(sheet, 1, col))) # <<>>}
    IN  IF llenas = {} THEN 1 ELSE CHOOSE col \in llenas : \A o \in llenas : o <= col

\* a header compared as str() gives it, whatever its type
sin_formato(v) == strip(PyStr(v))

\* the text a header cell is compared by
cell_str(v) == IF v.tag = "datetime" THEN strftime(v) ELSE strip(PyStr(v))

\* MainWindow._find_or_create_date_column: the column and the sheet after it
find_or_create_date_column(sheet, date_str) ==
    LET last_valid == get_last_date_column(sheet)
        iguales == {col \in 2..last_valid :
                       /\ cell(sheet, 1, col) # None
                       /\ cell_str(cell(sheet, 1, col)) = date_str}
    IN  IF iguales # {}
        THEN [col |-> CHOOSE col \in iguales : \A o \in iguales : col <= o, hoja |-> sheet]
        ELSE [col |-> last_valid + 1,
              hoja |-> Poner(sheet, 1, last_valid + 1, Str(date_str))]

\* the value guardar_asistencia puts in the date column of a row
marca(celda_matricula, registradas) ==
    IF celda_matricula # None
    THEN IF strip(PyStr(celda_matricula)) \in registradas THEN Str(SI) ELSE Str(NO)
    ELSE Str(NO)

\* the loop of guardar_asistencia over the rows from 2 down
marcar_filas(hoja, col_fecha, registradas) ==
    [r \in 1..Len(hoja) |->
        [c \in 1..Max(col_fecha, max_column(hoja)) |->
            IF r >= 2 /\ c = col_fecha
            THEN marca(cell(hoja, r, 1), registradas)
            ELSE cell(hoja, r, c)]]

\* guardar_asistencia: the sheet that is saved
hoja_guardada(hoja, f, registradas) ==
    LET fc == find_or_create_date_column(hoja, fecha_seleccionada(f))
    IN  marcar_filas(fc.hoja, fc.col, registradas)

\* toggle_pasar_lista: the roster read from the first column
registro_de(hoja) ==
    {strip(PyStr(cell(hoja, r, 1))) : r \in {r \in 2..max_row(hoja) : cell(hoja, r, 1) # None}}

\* Workbook() with "MATRICULA" in A1
LibroNuevo == << <<Str(MATRICULA)>> >>

\* no file
SinLibro == <<>>

\* dates of the selector
Fechas == {QDate(21, 2, 2025), QDate(3, 11, 2025)}

\* a workbook with the roster " a ", 7 and an empty row; 21/02/2025 is a date
\* cell and a blank header follows it
LibroA ==
    << <<Str(MATRICULA), Datetime(21, 2, 2025), Str(<<32, 32>>), None>>,
       <<Str(<<32, 97, 32>>), Str(SI), None, None>>,
       <<Entero(7), Str(NO), None, None>>,
       <<None, Str(NO), None, None>> >>

\* a workbook with the roster "z" and "a"; 03/11/2025 is a text header with
\* spaces after an empty one
LibroB ==
    << <<Str(MATRICULA), None, Str(<<32>> \o fecha_seleccionada(QDate(3, 11, 2025)) \o <<32>>)>>,
       <<Str(<<122>>), None, None>>,
       <<Str(<<97>>), None, Str(SI)>> >>

Libros == {LibroA, LibroB}

\* cards programmed with the matriculas "a" and "z"
Tarjetas == {MemOf(Image(0, tlv(HTTPS \o m), 0)) : m \in {<<97>>, <<122>>}}

\* texts of the label
Texto(msg, m) == [msg |-> msg, m |-> m]

\* the mensaje the observer sends with an estado
mensaje_de(estado) ==
    CASE estado = "reading" -> Texto("Leyendo tarjeta...", <<>>)
      [] estado = "waiting" -> Texto("Esperando lecturas...", <<>>)
      [] estado = "error" -> Texto("Lectura fallida. Pase la tarjeta nuevamente.", <<>>)

---------------------------------------------------------------------------
(* Initial state: a tag is on the reader and no operation has begun.       *)

\* tags handed to the programming tool: blank, or holding a longer record
\* written before
InitialTags ==
    { MemOf(Image(0, <<>>, 0)),
      MemOf(Image(0, tlv(HTTPS \o Body(MaxLen + 2, 1)), 0)) }

Idle ==
    /\ pc = "idle"
    /\ prog = "tool"
    /\ url = <<>>
    /\ paginas = <<>>
    /\ i = 0
    /\ datos_leidos = <<>>
    /\ current_page = pagina_inicio
    /\ apdus = <<>>
    /\ leida = Unset
    /\ raised = ""
    /\ faults = 0
    /\ nenc = 0
    /\ senales = <<>>

\* MainWindow.__init__
Ventana ==
    /\ lectura_en_proceso = FALSE
    /\ thread_lectura = "None"
    /\ observador = FALSE
    /\ emisor = "None"
    /\ registro_matriculas = {}
    /\ matriculas_registradas = {}
    /\ invalid_matriculas = {}
    /\ label_matricula = [estado |-> "waiting", texto |-> Texto("", <<>>)]
    /\ cola = <<>>
    /\ recibidas = {}
    /\ en_lector = FALSE
    /\ ntarjetas = 0

\* no session is ever started: the window stays as constructed
SinSesion == Ventana /\ libro = SinLibro

Init == mem \in InitialTags /\ Idle /\ SinSesion

\* a blank tag is handed to the programming tool
InitCap == mem = MemOf(Image(0, <<>>, 0)) /\ Idle /\ SinSesion

\* a tag with any content is put on the reader
InitScan == mem \in {MemOf(img) : img \in Images} /\ Idle /\ SinSesion

\* the attendance application is opened; the workbook is there or not
InitWin ==
    /\ mem = MemOf(Image(0, <<>>, 0))
    /\ Idle
    /\ Ventana
    /\ libro \in Libros \cup {SinLibro}

---------------------------------------------------------------------------
(* escribir_ndef                                                           *)

\* entry of escribir_ndef(u): the TLV is built, padded and split
Escribir(u) ==
    /\ pc = "idle"
    /\ nenc < MaxEncodes
    /\ pc' = "write"
    /\ prog' = "tool"
    /\ url' = u
    /\ paginas' = Dividir(tlv(u))
    /\ i' = 0
    /\ apdus' = <<>>
    /\ leida' = Unset
    /\ raised' = ""
    /\ nenc' = nenc + 1
    /\ senales' = <<>>
    /\ UNCHANGED <<mem, datos_leidos, current_page, faults>>
    /\ UNCHANGED winVars

\* the write command of _escribir_pagina
WriteCmd(pagina, datos, ok) ==
    [op |-> "write", page |-> pagina, data |-> datos, ok |-> ok,
     apdu |-> apdu_escribir(pagina, datos)]

\* a page the tag accepts a write to
Writable(pagina) == pagina >= 0 /\ pagina < TagPages

\* the byte offset of the block taken for its page
pagina_por_byte(k) == pagina_inicio + 4 * k

\* for i, datos in enumerate(paginas): the page of the i-th block
pagina_destino(k) == pagina_inicio + k

\* a loop that gives up at the first failed write
AbortarSiFalla(ok) == IF ok THEN "write" ELSE "fin_escribir"

\* where the loop stands after a write came back: the status is only logged
DespuesDeEscribir(ok) == "write"

\* one iteration of the write loop: _escribir_pagina(pagina_inicio + i, datos)
EscribirPagina(ok) ==
    /\ pc = "write"
    /\ i < Len(paginas)
    /\ LET datos == paginas[i + 1]
           pagina == pagina_destino(i)
       IN  IF Len(datos) # 4
           THEN /\ raised' = "ValueError"
                /\ pc' = "fin_escribir"
                /\ UNCHANGED <<mem, i, apdus, faults>>
           ELSE /\ ok => Writable(pagina)
                /\ ~ok => faults < MaxFaults
                /\ apdus' = Append(apdus, WriteCmd(pagina, datos, ok))
                /\ mem' = TagAfter(mem, apdu_escribir(pagina, datos), ok)
                /\ faults' = IF ok THEN faults ELSE faults + 1
                /\ i' = i + 1
                /\ pc' = DespuesDeEscribir(ok)
                /\ raised' = raised
    /\ UNCHANGED <<prog, url, paginas, datos_leidos, current_page, leida, nenc, senales>>
    /\ UNCHANGED winVars

\* the loop is exhausted: "Escritura completada."
EscrituraCompletada ==
    /\ pc = "write"
    /\ i >= Len(paginas)
    /\ pc' = "fin_escribir"
    /\ UNCHANGED <<mem, prog, url, paginas, i, datos_leidos, current_page,
                   apdus, leida, raised, faults, nenc, senales>>
    /\ UNCHANGED winVars

---------------------------------------------------------------------------
(* leer_ndef                                                               *)

\* signals of CardMonitorThread: nuevaMatricula(str), estadoLectura(estado, mensaje)
NuevaMatricula(m) == [sig |-> "nuevaMatricula", val |-> m]
Estado(e) == [sig |-> "estadoLectura", val |-> e]

\* emit_matricula, emit_estado: the signal is queued for the slots connected
\* to the emitter, if there is one
Emitir(q, senal) == IF emisor = "conectado" THEN Append(q, senal) ELSE q

\* entry of leer_ndef in program p; in the attendance application it is called
\* by CardReaderObserver.update, which has emitted "reading" before
Leer(p) ==
    /\ pc = "idle"
    /\ pc' = "scan"
    /\ prog' = p
    /\ datos_leidos' = <<>>
    /\ current_page' = pagina_inicio
    /\ apdus' = <<>>
    /\ leida' = Unset
    /\ raised' = ""
    /\ senales' = IF p = "app" THEN <<Estado("reading")>> ELSE <<>>
    /\ cola' = IF p = "app" THEN Emitir(cola, Estado("reading")) ELSE cola
    /\ UNCHANGED <<mem, url, paginas, i, faults, nenc>>
    /\ UNCHANGED ventanaVars

\* the read command of _leer_bloque
ReadCmd(pagina, bloque, ok) ==
    [op |-> "read", page |-> pagina, data |-> bloque, ok |-> ok,
     apdu |-> apdu_leer(pagina)]

\* a test that looks at the last byte of the block only
UltimoEsTerminador(bloque) == bloque # <<>> /\ bloque[Len(bloque)] = 254

\* 0xFE in bloque
HayTerminador(bloque) == Contains(bloque, 254)

\* a scan that moves on by one page after a read of four
PaginaContigua(p) == p + 1

\* current_page += 4
SiguientePagina(p) == p + 4

\* a ceiling that is off by one block
HastaElLimite(p) == p <= max_page

\* while current_page < max_page
DentroDelLimite(p) == p < max_page

\* datos_leidos.extend(bloque)
Extender(d, bloque) == d \o bloque

\* a loop that reads on after a failed read
SeguirLeyendo == "scan"

\* if bloque is None: break
AlFallar == "parse"

\* one iteration of the read loop: _leer_bloque(current_page) and its tests
LeerBloque(o) ==
    /\ pc = "scan"
    /\ DentroDelLimite(current_page)
    /\ o \notin {"raw", "framed"} => faults < MaxFaults
    /\ LET respuesta == Respuesta(mem, current_page, o)
           bloque == UltimosBytes(respuesta)
       IN  IF ~StatusOk(o)
           THEN /\ apdus' = Append(apdus, ReadCmd(current_page, <<>>, FALSE))
                /\ pc' = AlFallar
                /\ UNCHANGED <<datos_leidos, current_page>>
           ELSE /\ apdus' = Append(apdus, ReadCmd(current_page, bloque, TRUE))
                /\ datos_leidos' = Extender(datos_leidos, bloque)
                /\ IF HayTerminador(bloque)
                   THEN pc' = "parse" /\ current_page' = current_page
                   ELSE pc' = "scan" /\ current_page' = SiguientePagina(current_page)
    /\ mem' = TagAfter(mem, apdu_leer(current_page), StatusOk(o))
    /\ faults' = IF o \in {"raw", "framed"} THEN faults ELSE faults + 1
    /\ UNCHANGED <<prog, url, paginas, i, leida, raised, nenc, senales>>
    /\ UNCHANGED winVars

\* the loop condition is false: the ceiling was reached
Techo ==
    /\ pc = "scan"
    /\ ~DentroDelLimite(current_page)
    /\ pc' = "parse"
    /\ UNCHANGED <<mem, prog, url, paginas, i, datos_leidos, current_page,
                   apdus, leida, raised, faults, nenc, senales>>
    /\ UNCHANGED winVars

\* the rest of leer_ndef: locate the TLV and decode the record
Analizar ==
    /\ pc = "parse"
    /\ leida' = parse(prog, datos_leidos).ret
    /\ raised' = parse(prog, datos_leidos).exc
    /\ pc' = "fin_leer"
    /\ UNCHANGED <<mem, prog, url, paginas, i, datos_leidos, current_page,
                   apdus, faults, nenc, senales>>
    /\ UNCHANGED winVars

\* an observer that emits what leer_ndef returned as it is
sin_quitar(s) == s

\* CardReaderObserver.update: the scheme is cut off the text read
quitar_esquema(s) ==
    IF StartsWith(s, HTTPS) THEN Slice(s, Len(HTTPS), Len(s))
    ELSE IF StartsWith(s, HTTP) THEN Slice(s, Len(HTTP), Len(s))
    ELSE s

\* the signal CardReaderObserver.update emits for what leer_ndef gave
senal_de(ret, exc) ==
    IF exc # "" THEN Estado("error")
    ELSE IF quitar_esquema(ret.s) # <<>> THEN NuevaMatricula(quitar_esquema(ret.s))
    ELSE Estado("error")

\* the rest of CardReaderObserver.update for this card
Observador ==
    /\ pc = "fin_leer"
    /\ prog = "app"
    /\ senales' = Append(senales, senal_de(leida, raised))
    /\ cola' = Emitir(cola, senal_de(leida, raised))
    /\ pc' = "emitido"
    /\ UNCHANGED <<mem, prog, url, paginas, i, datos_leidos, current_page,
                   apdus, leida, raised, faults, nenc>>
    /\ UNCHANGED ventanaVars

\* the caller goes on to its next operation on the same tag
Siguiente ==
    /\ \/ pc = "fin_escribir"
       \/ pc = "fin_leer" /\ prog = "tool"
       \/ pc = "emitido"
    /\ pc' = "idle"
    /\ UNCHANGED <<mem, prog, url, paginas, i, datos_leidos, current_page,
                   apdus, leida, raised, faults, nenc, senales>>
    /\ UNCHANGED winVars

\* escribir_y_leer_lista goes round its loop: the tag is taken off, and
\* esperar_tarjeta connects to the same tag put back for the next entry
EsperarTarjeta ==
    /\ pc = "idle"
    /\ nenc > 0
    /\ nenc' = 0
    /\ UNCHANGED <<mem, pc, prog, url, paginas, i, datos_leidos, current_page,
                   apdus, leida, raised, faults, senales>>
    /\ UNCHANGED winVars

---------------------------------------------------------------------------
(* The attendance window: MainWindow and the card monitor.                 *)

\* a card is put on the reader
Presentar(c) ==
    /\ ~en_lector
    /\ pc = "idle"
    /\ ntarjetas < MaxTarjetas
    /\ mem' = c
    /\ en_lector' = TRUE
    /\ ntarjetas' = ntarjetas + 1
    /\ senales' = <<>>
    /\ UNCHANGED <<pc, prog, url, paginas, i, datos_leidos, current_page,
                   apdus, leida, raised, faults, nenc>>
    /\ UNCHANGED <<lectura_en_proceso, thread_lectura, observador, emisor,
                   registro_matriculas, matriculas_registradas, invalid_matriculas,
                   label_matricula, libro, recibidas, cola>>

\* CardReaderObserver.update with an added card: "reading" is emitted and
\* leer_ndef is entered
Actualizar ==
    /\ observador
    /\ en_lector
    /\ senales = <<>>
    /\ Leer("app")

\* the card is taken off the reader: CardReaderObserver.update with a removed
\* card emits "waiting"
Retirar ==
    /\ en_lector
    /\ pc = "idle"
    /\ ~(observador /\ senales = <<>>)
    /\ en_lector' = FALSE
    /\ cola' = IF observador THEN Emitir(cola, Estado("waiting")) ELSE cola
    /\ UNCHANGED codecVars
    /\ UNCHANGED <<lectura_en_proceso, thread_lectura, observador, emisor,
                   registro_matriculas, matriculas_registradas, invalid_matriculas,
                   label_matricula, libro, recibidas,
                   ntarjetas>>

\* asistencia.xlsx is replaced on disk while no session runs
Editar(b) ==
    /\ ~lectura_en_proceso
    /\ b # libro
    /\ libro' = b
    /\ UNCHANGED codecVars
    /\ UNCHANGED <<lectura_en_proceso, thread_lectura, observador, emisor,
                   registro_matriculas, matriculas_registradas, invalid_matriculas,
                   label_matricula, recibidas,
                   en_lector, ntarjetas, cola>>

\* the style and text actualizar_estado(estado, mensaje) puts on the label.
\* The single-shot timers it arms for success, error and duplicate restore
\* the waiting look 1.5 s later and touch nothing else; label_matricula keeps
\* what the call itself displayed.
Mostrar(estado, mensaje) == [estado |-> estado, texto |-> mensaje]

\* toggle_pasar_lista with no session running.  abrir is what the first
\* load_workbook does, cargar what the second does, lectores whether
\* readers() finds a reader when the thread runs.  A failed start shows a
\* message box and returns.
IniciarLectura(abrir, cargar, lectores) ==
    /\ ~lectura_en_proceso
    /\ abrir = "FileNotFoundError" <=> libro = SinLibro
    /\ IF abrir = "PermissionError"
       THEN UNCHANGED <<lectura_en_proceso, thread_lectura, observador, emisor,
                        registro_matriculas, matriculas_registradas,
                        invalid_matriculas, label_matricula, libro, recibidas>>
       ELSE /\ libro' = IF abrir = "FileNotFoundError" THEN LibroNuevo ELSE libro
            /\ IF cargar = "Exception"
               THEN UNCHANGED <<lectura_en_proceso, thread_lectura, observador,
                                emisor, registro_matriculas, matriculas_registradas,
                                invalid_matriculas, label_matricula, recibidas>>
               ELSE /\ registro_matriculas' = registro_de(libro')
                    /\ matriculas_registradas' = {}
                    /\ invalid_matriculas' = {}
                    /\ recibidas' = {}
                    /\ lectura_en_proceso' = TRUE
                    /\ thread_lectura' = "thread"
                    /\ emisor' = "conectado"
                    /\ observador' = lectores
                    /\ label_matricula' = Mostrar("waiting", mensaje_de("waiting"))
    /\ UNCHANGED codecVars
    /\ UNCHANGED <<en_lector, ntarjetas, cola>>

\* toggle_pasar_lista with a session running: detener_lectura, which ends
\* with guardar_asistencia.  f is the date of date_edit, abrir what
\* load_workbook does, guardar what wb.save does.
DetenerLectura(f, abrir, guardar) ==
    /\ lectura_en_proceso
    /\ abrir = "ok" => libro # SinLibro
    /\ lectura_en_proceso' = FALSE
    /\ thread_lectura' = "None"
    /\ observador' = FALSE
    /\ IF abrir = "Exception"
       THEN UNCHANGED <<libro, label_matricula>>
       ELSE /\ libro' = IF guardar = "ok"
                        THEN hoja_guardada(libro, f, matriculas_registradas)
                        ELSE libro
            /\ label_matricula' = [label_matricula EXCEPT
                                        !.texto = Texto("Asistencia guardada.", <<>>)]
    /\ UNCHANGED codecVars
    /\ UNCHANGED <<emisor, registro_matriculas, matriculas_registradas,
                   invalid_matriculas, recibidas, en_lector, ntarjetas,
                   cola>>

\* a roster that lets every matricula in
sin_validar(matricula, registro) == TRUE

\* if matricula in self.registro_matriculas
es_valida(matricula, registro) == matricula \in registro

\* a test that takes every receipt for the first
siempre_nueva(matricula, registradas) == TRUE

\* if matricula not in self.matriculas_registradas
es_nueva(matricula, registradas) == matricula \notin registradas

\* the slot procesar_matricula runs for the nuevaMatricula at the head of the queue
ProcesarMatricula ==
    /\ cola # <<>>
    /\ Head(cola).sig = "nuevaMatricula"
    /\ cola' = Tail(cola)
    /\ LET matricula == Head(cola).val IN
       /\ recibidas' = recibidas \cup {matricula}
       /\ IF es_valida(matricula, registro_matriculas)
          THEN /\ IF es_nueva(matricula, matriculas_registradas)
                  THEN /\ matriculas_registradas' = matriculas_registradas \cup {matricula}
                       /\ label_matricula' = Mostrar("success", Texto("registrada", matricula))
                  ELSE /\ label_matricula' = Mostrar("duplicate", Texto("ya fue registrada", matricula))
                       /\ UNCHANGED matriculas_registradas
               /\ UNCHANGED invalid_matriculas
          ELSE /\ IF matricula \notin invalid_matriculas
                  THEN /\ invalid_matriculas' = invalid_matriculas \cup {matricula}
                       /\ label_matricula' = Mostrar("error", Texto("no está registrada", matricula))
                          ELSE UNCHANGED <<invalid_matriculas, label_matricula>>
               /\ UNCHANGED matriculas_registradas
    /\ UNCHANGED codecVars
    /\ UNCHANGED <<lectura_en_proceso, thread_lectura, observador, emisor,
                   registro_matriculas, libro, en_lector,
                   ntarjetas>>

\* the slot actualizar_estado runs for the estadoLectura at the head of the queue
ActualizarEstado ==
    /\ cola # <<>>
    /\ Head(cola).sig = "estadoLectura"
    /\ cola' = Tail(cola)
    /\ label_matricula' = Mostrar(Head(cola).val, mensaje_de(Head(cola).val))
    /\ UNCHANGED codecVars
    /\ UNCHANGED <<lectura_en_proceso, thread_lectura, observador, emisor,
                   registro_matriculas, matriculas_registradas, invalid_matriculas,
                   libro, recibidas, en_lector, ntarjetas>>

\* the cards of Tarjetas hold a terminated record and every read is answered,
\* so the scan ends at the terminator
NextWin ==
    \/ \E c \in Tarjetas : Presentar(c)
    \/ Actualizar
    \/ LeerBloque("raw")
    \/ Analizar
    \/ Observador
    \/ Siguiente
    \/ Retirar
    \/ \E b \in Libros : Editar(b)
    \/ \E abrir \in {"ok", "PermissionError", "FileNotFoundError"},
          cargar \in {"ok", "Exception"}, lectores \in BOOLEAN :
            IniciarLectura(abrir, cargar, lectores)
    \/ \E f \in Fechas, abrir \in {"ok", "Exception"},
          guardar \in {"ok", "PermissionError"} :
            DetenerLectura(f, abrir, guardar)
    \/ ProcesarMatricula
    \/ ActualizarEstado

WinSpec == InitWin /\ [][NextWin]_vars

---------------------------------------------------------------------------

Next ==
    \/ \E u \in Urls : Escribir(u)
    \/ \E ok \in BOOLEAN : EscribirPagina(ok)
    \/ EscrituraCompletada
    \/ \E p \in {"tool", "app"} : Leer(p)
    \/ \E o \in ReadOutcomes : LeerBloque(o)
    \/ Techo
    \/ Analizar
    \/ Observador
    \/ Siguiente

Spec == Init /\ [][Next]_vars

\* the decoders alone, on tags of any content
NextScan ==
    \/ \E p \in {"tool", "app"} : Leer(p)
    \/ \E o \in ReadOutcomes : LeerBloque(o)
    \/ Techo
    \/ Analizar
    \/ Observador
    \/ Siguiente

ScanSpec == InitScan /\ [][NextScan]_vars

\* the programming tool at the capacity of the tag, every command answered
NextCap ==
    \/ \E u \in CapUrls : Escribir(u)
    \/ EscribirPagina(TRUE)
    \/ EscrituraCompletada
    \/ \E p \in {"tool", "app"} : Leer(p)
    \/ \E o \in {"raw", "framed"} : LeerBloque(o)
    \/ Techo
    \/ Analizar
    \/ Observador
    \/ Siguiente

CapSpec == InitCap /\ [][NextCap]_vars

\* escribir_y_leer_lista with one tag used for entry after entry, every
\* command answered: any number of records are written over one another
NextSeq ==
    \/ \E u \in SeqUrls : Escribir(u)
    \/ EscribirPagina(TRUE)
    \/ EscrituraCompletada
    \/ Leer("tool")
    \/ \E o \in {"raw", "framed"} : LeerBloque(o)
    \/ Techo
    \/ Analizar
    \/ Siguiente
    \/ EsperarTarjeta

SeqSpec == InitCap /\ [][NextSeq]_vars

\* a decode that has begun runs on: its loop is a plain Python loop
FairScanSpec == ScanSpec /\ WF_vars(NextScan)

TypeOK ==
    /\ pc \in {"idle", "write", "fin_escribir", "scan", "parse", "fin_leer", "emitido"}
    /\ prog \in {"tool", "app"}
    /\ i \in 0..Len(paginas)
    /\ current_page \in pagina_inicio..max_page
    /\ faults \in 0..MaxFaults
    /\ nenc \in 0..MaxEncodes
    /\ lectura_en_proceso \in BOOLEAN
    /\ thread_lectura = (IF lectura_en_proceso THEN "thread" ELSE "None")
    /\ observador => lectura_en_proceso /\ emisor = "conectado"
    /\ ntarjetas \in 0..MaxTarjetas
    /\ \A k \in 1..Len(cola) : cola[k].sig \in {"nuevaMatricula", "estadoLectura"}

---------------------------------------------------------------------------
(* Properties of escribir_ndef, checked under Spec.                        *)

RECURSIVE Flatten(_)
\* the data of a sequence of commands, end to end
Flatten(cmds) == IF cmds = <<>> THEN <<>> ELSE Head(cmds).data \o Flatten(Tail(cmds))

\* the page indices of a sequence of commands
PagesOf(cmds) == [k \in 1..Len(cmds) |-> cmds[k].page]

\* the URI without its scheme, by the text of the URI alone
Stripped(u) ==
    IF StartsWith(u, HTTPS) THEN SubSeq(u, 9, Len(u))
    ELSE IF StartsWith(u, HTTP) THEN SubSeq(u, 8, Len(u))
    ELSE u

HasScheme(u) == StartsWith(u, HTTPS) \/ StartsWith(u, HTTP)

\* C1: round trip.  After escribir_ndef(u), with u ASCII and beginning with
\* "https://" or "http://", and with every write and read answered 90 00 with
\* the full data, leer_ndef of the programming tool returns exactly u.
C1_RoundTrip ==
    (pc = "fin_leer" /\ prog = "tool" /\ nenc > 0 /\ faults = 0
        /\ IsAscii(url) /\ HasScheme(url))
    => (raised = "" /\ leida = Str(url))

\* C2: for "https://" + s, s of n ASCII characters, the bytes written from
\* page 4 on are 03, 5+n, D1, 01, 1+n, 55, 04, the bytes of s, FE and then
\* 00 up to the next multiple of 4.
C2_Stream ==
    (pc = "fin_escribir" /\ StartsWith(url, HTTPS) /\ IsAscii(url))
    => LET s == SubSeq(url, 9, Len(url))
           n == Len(s)
       IN  /\ raised = ""
           /\ apdus # <<>> /\ apdus[1].page = 4
           /\ Flatten(apdus) = <<3, 5 + n, 209, 1, 1 + n, 85, 4>> \o s \o <<254>>
                                 \o Repeat(0, (4 - ((n + 8) % 4)) % 4)

C2_Witness ==
    /\ pc = "fin_escribir"
    /\ StartsWith(url, HTTPS) /\ IsAscii(url)
    /\ Len(url) = Len(HTTPS) + 3
    /\ Len(Flatten(apdus)) = 12

\* C3: the first payload byte written is always 0x04, whether "https://" was
\* stripped, "http://" was stripped, or the input had no scheme and was kept
\* whole; the bytes after it are the UTF-8 bytes of what remained.
C3_AlwaysCode4 ==
    pc = "fin_escribir"
    => LET w == Flatten(apdus)
           rest == Utf8(Stripped(url))
       IN  /\ Len(w) >= 8 + Len(rest)
           /\ w[7] = 4
           /\ SubSeq(w, 8, 7 + Len(rest)) = rest
           /\ w[5] = 1 + Len(rest)

C3_Witness ==
    /\ pc = "fin_escribir"
    /\ StartsWith(url, HTTP)
    /\ Len(url) > Len(HTTP)
    /\ Flatten(apdus)[7] = 4

\* C4: the k-th write command (k = 0, 1, ...) targets page 4 + k and carries
\* bytes 4k..4k+3 of the padded TLV, and when escribir_ndef ends there has
\* been exactly one write per page of the padded TLV: none twice, none skipped.
C4_WriteOrder ==
    pc \in {"write", "fin_escribir"}
    => /\ \A k \in 1..Len(apdus) :
            /\ apdus[k].op = "write"
            /\ apdus[k].page = 4 + (k - 1)
            /\ apdus[k].data = SubSeq(tlv(url), 4 * (k - 1) + 1, 4 * k)
       /\ Len(apdus) = i
       /\ pc = "fin_escribir" => 4 * Len(apdus) = Len(tlv(url))

C4_Witness ==
    /\ pc = "fin_escribir"
    /\ Len(apdus) >= 5
    /\ PagesOf(apdus) = [k \in 1..Len(apdus) |-> 3 + k]

\* C5: the number of bytes escribir_ndef writes is a multiple of 4, every
\* call of _escribir_pagina carries exactly 4 bytes, and ValueError is never
\* raised.
C5_FourBytes ==
    pc \in {"write", "fin_escribir"}
    => /\ raised # "ValueError"
       /\ \A k \in 1..Len(paginas) : Len(paginas[k]) = 4
       /\ \A k \in 1..Len(apdus) : Len(apdus[k].data) = 4
       /\ pc = "fin_escribir" =>
            /\ Len(Flatten(apdus)) % 4 = 0
            /\ Len(Flatten(apdus)) >= Len(tlv_sin_relleno(url))

\* a URI whose TLV needed padding has been written
C5_Witness ==
    /\ pc = "fin_escribir"
    /\ Len(tlv_sin_relleno(url)) % 4 = 1
    /\ Len(Flatten(apdus)) = Len(tlv_sin_relleno(url)) + 3

\* C6: no rollback.  Whatever statuses the writes return, escribir_ndef
\* writes every page of the TLV, raises nothing, and each page whose write
\* succeeded keeps the data written, also after a later write failed.
C6_NoRollback ==
    /\ pc = "fin_escribir" =>
            /\ raised = ""
            /\ PagesOf(apdus) = [k \in 1..Len(paginas) |-> 4 + (k - 1)]
    /\ pc \in {"write", "fin_escribir"} =>
            \A k \in 1..Len(apdus) : apdus[k].ok => mem[apdus[k].page] = apdus[k].data

\* a write failed and later pages were written all the same
C6_Witness ==
    /\ pc = "fin_escribir"
    /\ Len(apdus) >= 3
    /\ apdus[1].ok /\ ~apdus[2].ok /\ apdus[3].ok
    /\ mem[apdus[1].page] = apdus[1].data
    /\ mem[apdus[3].page] = apdus[3].data

---------------------------------------------------------------------------
(* Properties of leer_ndef in both programs, checked under ScanSpec.       *)

\* no byte 0x03 in the pages leer_ndef scans
NoMarker(m) ==
    \A p \in pagina_inicio..(max_page - 1) : \A k \in 1..4 : m[p][k] # 3

\* no byte 0xFE in the pages leer_ndef scans
NoTerminator(m) ==
    \A p \in pagina_inicio..(max_page - 1) : \A k \in 1..4 : m[p][k] # 254

InDecode == pc \in {"scan", "parse", "fin_leer"}

C7_ReadsBounded ==
    InDecode =>
        /\ Len(apdus) <= 9
        /\ \A k \in 1..Len(apdus) :
                /\ apdus[k].page \in {4, 8, 12, 16, 20, 24, 28, 32, 36}
                /\ apdus[k].page >= 4 /\ apdus[k].page < 40

\* C7: bounded iteration.  Whatever the tag holds, also when no read ever
\* returns 0xFE, the read loop issues at most 9 block reads, only at pages
\* 4, 8, ..., 36, and a decode that has begun reaches its end.
C7_Bounded == []C7_ReadsBounded /\ ((pc = "scan") ~> (pc = "fin_leer"))

\* the ceiling ended the scan of a tag without terminator
C7_Witness ==
    /\ pc = "fin_leer"
    /\ NoTerminator(mem)
    /\ Len(apdus) = 9
    /\ apdus[9].page = 36 /\ apdus[9].ok
    /\ current_page = 40

Stops(c) == ~c.ok \/ Contains(c.data, 254)

\* C8: the scan stops at the first block that contains 0xFE (appended), at the
\* first read with a bad status (nothing appended) or at the ceiling.  No read
\* is issued after the stopping event; before it, the blocks are appended in
\* page order, one read every 4 pages.
C8_StopEvents ==
    InDecode =>
        /\ \A k \in 1..Len(apdus) :
                /\ apdus[k].op = "read"
                /\ apdus[k].page = 4 + 4 * (k - 1)
                /\ ~apdus[k].ok => apdus[k].data = <<>>
                /\ k < Len(apdus) => ~Stops(apdus[k])
        /\ datos_leidos = Flatten(apdus)
        /\ pc = "scan" =>
                /\ \A k \in 1..Len(apdus) : ~Stops(apdus[k])
                /\ current_page = 4 + 4 * Len(apdus)
        /\ pc \in {"parse", "fin_leer"} =>
                /\ apdus # <<>>
                /\ Stops(apdus[Len(apdus)]) \/ Len(apdus) = 9

\* a terminator in the third block ended the scan, the block was appended
C8_Witness ==
    /\ pc = "parse"
    /\ Len(apdus) = 3
    /\ apdus[3].ok /\ Contains(apdus[3].data, 254)
    /\ Len(datos_leidos) = 48
    /\ Contains(SubSeq(datos_leidos, 33, 48), 254)

\* C9: decoding a tag with no byte 0x03 in pages 4..39 returns "not found"
\* (None in the programming tool, "" in the attendance application) and
\* raises nothing.
C9_Blank ==
    (pc = "fin_leer" /\ NoMarker(mem))
    => (raised = "" /\ leida = NotFound(prog))

\* an all-zero tag has been decoded by the attendance application
C9_Witness ==
    /\ pc = "fin_leer"
    /\ prog = "app"
    /\ \A p \in pagina_inicio..(max_page - 1) : mem[p] = <<0, 0, 0, 0>>
    /\ leida = Str(<<>>)

FailedMidScan == apdus # <<>> /\ ~apdus[Len(apdus)].ok /\ Len(apdus) >= 2

\* C10: a read with a bad status in mid-scan raises nothing: it is the last
\* read of the scan, the bytes of the earlier blocks are what is parsed, and
\* when no 0x03 is among them decode returns "not found".
C10_BadRead ==
    InDecode =>
        /\ \A k \in 1..Len(apdus) : ~apdus[k].ok =>
                /\ k = Len(apdus)
                /\ pc # "scan"
                /\ datos_leidos = Flatten(SubSeq(apdus, 1, k - 1))
        /\ (FailedMidScan /\ pc = "parse") => raised = ""
        /\ (FailedMidScan /\ pc = "fin_leer" /\ ~Contains(datos_leidos, 3))
                => (raised = "" /\ leida = NotFound(prog))

\* the second read failed and the first block, without marker, was parsed
C10_Witness ==
    /\ pc = "fin_leer"
    /\ Len(apdus) = 2
    /\ apdus[1].ok /\ ~apdus[2].ok
    /\ Len(datos_leidos) = 16
    /\ ~Contains(datos_leidos, 3)
    /\ leida = NotFound(prog)

---------------------------------------------------------------------------
(* Properties of the parsing in leer_ndef, checked under ScanSpec.         *)

\* a 0x03 marker with a length byte after it is in the buffer
HasMessage(d) == Contains(d, 3) /\ IndexOf(d, 3) + 1 < Len(d)

\* C11: empty payload.  When the message located has 5 bytes or more and its
\* payload_length byte is 0, decode returns its failure value (None in the
\* programming tool, "" in the attendance application) and raises nothing.
C11_EmptyPayload ==
    (pc = "fin_leer" /\ HasMessage(datos_leidos)
        /\ Len(mensaje_ndef(datos_leidos)) >= 5
        /\ mensaje_ndef(datos_leidos)[3] = 0)
    => (raised = "" /\ leida = NotFound(prog))

\* the prefix table of the specification, spelled out
PrefixOf(c) ==
    IF c = 0 THEN <<>>
    ELSE IF c = 1 THEN <<104, 116, 116, 112, 58, 47, 47, 119, 119, 119, 46>>
    ELSE IF c = 2 THEN <<104, 116, 116, 112, 115, 58, 47, 47, 119, 119, 119, 46>>
    ELSE IF c = 3 THEN <<104, 116, 116, 112, 58, 47, 47>>
    ELSE IF c = 4 THEN <<104, 116, 116, 112, 115, 58, 47, 47>>
    ELSE <<>>

\* C12: a successful decode of the programming tool returns prefix(c) followed
\* by the remaining payload bytes as characters, c being the first payload
\* byte: "" for 0, "http://www." for 1, "https://www." for 2, "http://" for 3,
\* "https://" for 4 and "" for any other code.
C12_PrefixTable ==
    (pc = "fin_leer" /\ prog = "tool" /\ leida.tag = "str")
    => /\ raised = ""
       /\ HasMessage(datos_leidos)
       /\ LET pl == payload_leido(mensaje_ndef(datos_leidos))
          IN  /\ pl # <<>>
              /\ leida.s = PrefixOf(pl[1]) \o Tail(pl)

\* a record with code 0x02 has been decoded
C12_Witness ==
    /\ pc = "fin_leer"
    /\ prog = "tool"
    /\ HasMessage(datos_leidos)
    /\ mensaje_ndef(datos_leidos) = <<209, 1, 3, 85, 2, 97, 98>>
    /\ leida = Str(<<104, 116, 116, 112, 115, 58, 47, 47, 119, 119, 119, 46, 97, 98>>)

---------------------------------------------------------------------------
(* Frame properties of leer_ndef, checked under Spec.                      *)

DecodeStates == {"scan", "parse", "fin_leer", "emitido"}

C13_OnlyReads ==
    pc \in DecodeStates =>
        \A k \in 1..Len(apdus) :
            apdus[k].apdu = <<255, 0, 0, 0, 4, 212, 66, 48, 4 + 4 * (k - 1)>>

\* C13: decode never mutates the tag.  From the entry of leer_ndef to its end,
\* in either program, every command sent is FF 00 00 00 04 D4 42 30 page, and
\* no step changes a page of the tag.
C13_ReadOnly ==
    /\ []C13_OnlyReads
    /\ [][pc' \in DecodeStates => mem' = mem]_vars

\* a tag holding a record has been read in two blocks
C13_Witness ==
    /\ pc = "fin_leer"
    /\ Len(apdus) = 2
    /\ apdus[1].ok /\ apdus[2].ok
    /\ mem[4] # <<0, 0, 0, 0>> /\ mem[8] # <<0, 0, 0, 0>>

---------------------------------------------------------------------------
(* What escribir_ndef leaves on the tag, checked under Spec.               *)

AllWritten == \A k \in 1..Len(apdus) : apdus[k].ok

\* the bytes of pages a..b of the tag
RECURSIVE BytesOf(_, _, _)
BytesOf(m, a, b) == IF a > b THEN <<>> ELSE m[a] \o BytesOf(m, a + 1, b)

\* C14 as stated: after escribir_ndef(u) with every write succeeding, the data
\* pages 4..39 hold only the padded TLV of u: nothing an earlier encode wrote
\* is left in them.
C14_FullyOverwritten ==
    (pc = "fin_escribir" /\ raised = "" /\ AllWritten)
    => BytesOf(mem, 4, 39) = tlv(url) \o Repeat(0, 144 - Len(tlv(url)))

\* C14 as amended, first half: with every write succeeding, pages 4..4+N-1
\* hold exactly the padded TLV of u, N being its number of pages.
C14_TlvInPlace ==
    (pc = "fin_escribir" /\ raised = "" /\ AllWritten)
    => /\ 4 * Len(paginas) = Len(tlv(url))
       /\ BytesOf(mem, 4, 3 + Len(paginas)) = tlv(url)

\* C14 as amended: escribir_ndef puts the padded TLV of u in pages 4..4+N-1
\* and writes no other page, so the pages from 4+N on keep what they held
\* before, bytes of an earlier longer record included.
C14_OverwritesPrefix ==
    /\ []C14_TlvInPlace
    /\ [][pc = "write" =>
            /\ i < Len(paginas) \/ pc' = "fin_escribir"
            /\ \A p \in DOMAIN mem : p # 4 + i => mem'[p] = mem[p]]_vars

\* a short record has been written over a longer one, whose tail is still there
C14_Witness ==
    /\ pc = "fin_escribir"
    /\ AllWritten
    /\ Len(paginas) = 2
    /\ BytesOf(mem, 4, 5) = tlv(url)
    /\ mem[6] # <<0, 0, 0, 0>>
    /\ Contains(BytesOf(mem, 6, 39), 254)

---------------------------------------------------------------------------
(* Capacity, checked under CapSpec.                                        *)

\* C15: for a URL of at most 130 single-byte characters escribir_ndef writes
\* only pages 4..39, both length bytes it emits are the true lengths and at
\* most 254, and the TLV with its 0xFE is within what leer_ndef reads: the
\* programming tool reads back "https://" and the text written.
C15_Capacity ==
    (Len(url) <= 130 /\ IsAscii(url)) =>
        /\ pc \in {"write", "fin_escribir"} =>
                \A k \in 1..Len(apdus) : apdus[k].page \in 4..39
        /\ pc = "fin_escribir" =>
                LET w == Flatten(apdus) IN
                /\ w[2] = Len(Stripped(url)) + 5 /\ w[2] <= 254
                /\ w[5] = Len(Stripped(url)) + 1 /\ w[5] <= 254
        /\ (pc = "fin_leer" /\ nenc > 0) =>
                /\ Len(datos_leidos) >= Len(tlv_sin_relleno(url))
                /\ SubSeq(datos_leidos, 1, Len(tlv_sin_relleno(url))) = tlv_sin_relleno(url)
                /\ datos_leidos[Len(tlv_sin_relleno(url))] = 254
                /\ \A k \in 1..Len(apdus) : apdus[k].page < 40
                /\ prog = "tool" =>
                        leida = Str(<<104, 116, 116, 112, 115, 58, 47, 47>> \o Stripped(url))

\* a URL of 130 characters without scheme has been written and read back
C15_Witness ==
    /\ pc = "fin_leer"
    /\ prog = "tool"
    /\ nenc > 0
    /\ Len(url) = 130 /\ ~HasScheme(url)
    /\ Len(apdus) = 9
    /\ leida = Str(<<104, 116, 116, 112, 115, 58, 47, 47>> \o url)

---------------------------------------------------------------------------
(* The two programs on one tag, checked under Spec.                        *)

\* C16: a non-empty ASCII matricula without scheme, written by the programming
\* tool with every write succeeding, is read by the attendance application's
\* observer (every read succeeding) as nuevaMatricula(m), with no "error"
\* state emitted for the card; the programming tool itself reads "https://" + m.
C16_EndToEnd ==
    (nenc > 0 /\ faults = 0 /\ url # <<>> /\ IsAscii(url) /\ ~HasScheme(url)) =>
        /\ pc = "emitido" => senales = <<Estado("reading"), NuevaMatricula(url)>>
        /\ (pc = "fin_leer" /\ prog = "tool") =>
                (raised = "" /\ leida = Str(<<104, 116, 116, 112, 115, 58, 47, 47>> \o url))

\* the observer has emitted a matricula that took two block reads
C16_Witness ==
    /\ pc = "emitido"
    /\ nenc > 0 /\ faults = 0
    /\ ~HasScheme(url) /\ IsAscii(url) /\ Len(url) >= 9
    /\ Len(apdus) = 2
    /\ senales[2] = NuevaMatricula(url)

---------------------------------------------------------------------------
(* Truncated records, checked under ScanSpec.                              *)

\* the suffix of a returned string: what follows the prefix of code c
SuffixLen(p, str, c) == IF p = "tool" THEN Len(str) - Len(PrefixOf(c)) ELSE Len(str)

\* C17: decode never returns a truncated URI.  When the marker is the last
\* byte of the buffer, or fewer than 5 message bytes, or fewer than
\* 4 + payload_length message bytes are in it, decode returns its failure
\* value and raises nothing; a string returned on success has exactly
\* payload_length - 1 characters after its prefix.
C17_NoTruncation ==
    pc = "fin_leer" =>
        /\ (Contains(datos_leidos, 3) /\ ~HasMessage(datos_leidos))
                => (raised = "" /\ leida = NotFound(prog))
        /\ HasMessage(datos_leidos) =>
                LET m == SubSeq(datos_leidos, IndexOf(datos_leidos, 3) + 3,
                                Min(Len(datos_leidos),
                                    IndexOf(datos_leidos, 3) + 2
                                        + datos_leidos[IndexOf(datos_leidos, 3) + 2]))
                IN  /\ (Len(m) < 5 \/ Len(m) < 4 + m[3])
                        => (raised = "" /\ leida = NotFound(prog))
                    /\ (raised = "" /\ leida # NotFound(prog))
                        => /\ Len(m) >= 4 + m[3]
                           /\ SuffixLen(prog, leida.s, m[5]) = m[3] - 1

\* the scan was cut by a failed read inside the record, and decode failed
C17_Witness ==
    /\ pc = "fin_leer"
    /\ apdus # <<>> /\ ~apdus[Len(apdus)].ok
    /\ HasMessage(datos_leidos)
    /\ Len(mensaje_ndef(datos_leidos)) >= 5
    /\ Len(mensaje_ndef(datos_leidos)) < 4 + mensaje_ndef(datos_leidos)[3]
    /\ leida = NotFound(prog)

---------------------------------------------------------------------------
(* The attendance window, checked under WinSpec.                           *)

\* a step in which procesar_matricula takes the matricula at the head of the queue
Recibe == cola # <<>> /\ Head(cola).sig = "nuevaMatricula" /\ cola' = Tail(cola)

\* C18: within a session, the first receipt of a matricula of the roster adds
\* it to matriculas_registradas and shows "success"; a later receipt of it
\* shows "duplicate" and leaves the set as it is; a matricula that is not in
\* the roster is never added, and "error" is shown on its first receipt only.
C18_Receipts ==
    [][Recibe =>
        LET m == Head(cola).val IN
        /\ (m \in registro_matriculas /\ m \notin recibidas) =>
                /\ matriculas_registradas' = matriculas_registradas \cup {m}
                /\ m \notin matriculas_registradas
                /\ label_matricula'.estado = "success"
                /\ label_matricula'.texto.m = m
        /\ (m \in registro_matriculas /\ m \in recibidas) =>
                /\ matriculas_registradas' = matriculas_registradas
                /\ label_matricula'.estado = "duplicate"
                /\ label_matricula'.texto.m = m
        /\ (m \notin registro_matriculas) =>
                /\ matriculas_registradas' = matriculas_registradas
                /\ m \notin matriculas_registradas'
                /\ m \notin recibidas =>
                        /\ label_matricula'.estado = "error"
                        /\ label_matricula'.texto.m = m
                /\ m \in recibidas => label_matricula' = label_matricula
    ]_vars

\* "a" was read twice in a session of its roster and "duplicate" is on the label
C18_Witness ==
    /\ lectura_en_proceso
    /\ label_matricula.estado = "duplicate"
    /\ label_matricula.texto.m = <<97>>
    /\ <<97>> \in matriculas_registradas
    /\ <<97>> \in recibidas

\* the text of a header cell, <<>> for an empty one
Encabezado(celda) ==
    IF celda = None THEN <<>>
    ELSE IF celda.tag = "datetime"
         THEN Pad(celda.d, 2) \o <<47>> \o Pad(celda.m, 2) \o <<47>> \o Pad(celda.y, 4)
         ELSE strip(PyStr(celda))

\* the columns of a sheet whose header is the text d
ColumnasDe(hoja, d) == {c \in 1..Len(hoja[1]) : Encabezado(hoja[1][c]) = d}

\* the column the attendance of date text d belongs in
ColumnaDeFecha(hoja, d) ==
    IF ColumnasDe(hoja, d) # {}
    THEN CHOOSE c \in ColumnasDe(hoja, d) : \A o \in ColumnasDe(hoja, d) : c <= o
    ELSE LET llenos == {c \in 1..Len(hoja[1]) : Encabezado(hoja[1][c]) # <<>>}
         IN  1 + CHOOSE c \in llenos : \A o \in llenos : o <= c

\* what a save for the date f must leave in the workbook
Guardado(f) ==
    \E d \in {fecha_seleccionada(f)} : \E col \in {ColumnaDeFecha(libro, d)} :
        /\ Len(libro') = Len(libro)
        /\ Encabezado(libro'[1][col]) = d
        /\ \A r \in 2..Len(libro) :
                libro'[r][col] =
                    IF libro[r][1] # None
                        /\ strip(PyStr(libro[r][1])) \in matriculas_registradas
                    THEN Str(SI) ELSE Str(NO)
        /\ \A r \in 1..Len(libro) : \A c \in 1..Len(libro[1]) :
                c # col => libro'[r][c] = libro[r][c]
        /\ Cardinality(ColumnasDe(libro', d)) = Max(1, Cardinality(ColumnasDe(libro, d)))

\* C19: when detener_lectura stops a session and the workbook opens and
\* saves, every row from 2 down gets "SI" or "NO" in the column of the
\* selected date ("NO" for an empty matricula cell); that column is the one
\* whose header is the date or else a new one right after the last non-empty
\* header, and no second column for the date is ever made.
C19_Saved ==
    [][(/\ lectura_en_proceso /\ ~lectura_en_proceso'
        /\ label_matricula'.texto.msg = "Asistencia guardada.") =>
            \A f \in Fechas : DetenerLectura(f, "ok", "ok") => Guardado(f)]_vars

\* a session was saved in a new column for 21/02/2025 with "z" present and
\* "a" absent, the column of 03/11/2025 never having been written
C19_Witness ==
    /\ ~lectura_en_proceso
    /\ libro # SinLibro
    /\ Len(libro[1]) = 4
    /\ libro[1][4] = Str(<<50, 49, 47, 48, 50, 47, 50, 48, 50, 53>>)
    /\ libro[2] = <<Str(<<122>>), None, None, Str(SI)>>
    /\ libro[3][4] = Str(NO)

---------------------------------------------------------------------------
(* A list of URIs written to one tag, checked under SeqSpec.               *)

\* the record of the URI written last ends before the bytes of an earlier one
Remanente ==
    \E p \in (pagina_inicio + Len(paginas))..(max_page - 1) : mem[p] # <<0, 0, 0, 0>>

\* C21 as stated: after any sequence of escribir_ndef calls on one tag, with
\* every command answered, leer_ndef returns "https://" followed by the text,
\* without its scheme, of the URI written last, whatever its characters
C21_AnyText ==
    (pc = "fin_leer" /\ prog = "tool" /\ nenc > 0) =>
        /\ raised = ""
        /\ leida = Str(HTTPS \o Stripped(url))

\* C21 amended: after any sequence of escribir_ndef calls on one tag, with
\* every command answered, leer_ndef returns "https://" followed by the text,
\* without its scheme, of the URI written last when that URI is made of
\* single-byte (ASCII) characters, whatever an earlier record left behind
C21_LastWritten ==
    (pc = "fin_leer" /\ prog = "tool" /\ nenc > 0 /\ IsAscii(url)) =>
        /\ raised = ""
        /\ leida = Str(HTTPS \o Stripped(url))

\* a short URI is read back from a tag that still holds the tail of a longer one
C21_Witness ==
    /\ pc = "fin_leer" /\ prog = "tool" /\ nenc > 0
    /\ url = HTTP \o Body(3, 1)
    /\ Remanente
    /\ leida = Str(HTTPS \o Body(3, 1))

---------------------------------------------------------------------------
(* The two decoders side by side, checked under ScanSpec.                  *)

\* what each leer_ndef makes of the bytes a scan has gathered
DeTool == parse_tool(datos_leidos)
DeApp == parse_app(datos_leidos)

\* the first byte of the payload located in the bytes gathered
PrimerByte == payload_leido(mensaje_ndef(datos_leidos))[1]

\* C22: on every tag content and every pattern of read statuses the two
\* decoders agree: neither raises, the attendance application's leer_ndef
\* returns a result other than its failure value ("") exactly when the
\* programming tool's returns one other than its own (None), and when both do,
\* the tool's result is prefix(first payload byte) followed by the
\* application's result
C22_Agree ==
    pc = "fin_leer" =>
        /\ DeTool.exc = "" /\ DeApp.exc = ""
        /\ (DeTool.ret # NotFound("tool")) <=> (DeApp.ret # NotFound("app"))
        /\ (DeTool.ret # NotFound("tool") /\ DeApp.ret # NotFound("app")) =>
                DeTool.ret = Str(mapa_prefijos(PrimerByte) \o DeApp.ret.s)

---------------------------------------------------------------------------
(* Signals of the card monitor against the stop of a session, checked      *)
(* under WinSpec.                                                          *)

\* C23: whatever the interleaving of the card monitor's signals with the
\* stop, wait and save of the GUI thread, procesar_matricula never runs for a
\* nuevaMatricula once detener_lectura has ended the session and
\* guardar_asistencia has run, so every matricula shown as "success" is in
\* matriculas_registradas when the session is saved
C23_NoLateSignal == [][Recibe => lectura_en_proceso]_vars

====
